---- MODULE Spec2Model ----
(***************************************************************************)
(* State-machine model of the Layer Airdrop bot: the main wallet loop,     *)
(* processWalletSession / processWallet, the attempt-loop authenticate,    *)
(* checkCredit / checkWalletCredit, startChatSession / sendChatMessage and *)
(* the withRetry wrapper every network call site goes through.             *)
(*                                                                         *)
(* The program is a single async call chain, so one control location (pc)  *)
(* describes it; every await of a network request is a point where the     *)
(* environment chooses the response.                                       *)
(***************************************************************************)
EXTENDS Integers, Sequences, FiniteSets, TLC

VARIABLES
  cfg,            \* config.json and the proxy pool, read-only after startup
  proxy,          \* frame of getSessionProxy / getWorkingProxy
  privateKeys,    \* main: the loaded key list (each key valid or not)
  i,              \* main: loop index over privateKeys (0-based)
  successCount,   \* main
  failCount,      \* main
  pc,             \* control location of the single async call chain
  rt,             \* frame of the withRetry call in progress
  auth,           \* frame of authenticate
  credit,         \* processWallet: what checkCredit / checkWalletCredit returned
  chat,           \* frame of startChatSession
  success,        \* main: result of the last processWalletSession
  allOk,          \* every request and signature of the current wallet succeeded so far
  backoff,        \* withRetry's backoff taken alone: retries and the delays it computes
  delay,          \* main / startChatSession: ms of the latest pacing sleep (0: none)
  lease           \* the proxy pool and getSessionProxy / getWorkingProxy taken alone

vars ==
  <<cfg, proxy, privateKeys, i, successCount, failCount, pc, rt, auth, credit, chat, success,
    allOk, backoff, delay, lease>>

----------------------------------------------------------------------------
(* Bounds of the model *)

MaxKeys == 2          \* longest key list
MaxMsgs == 3          \* largest configured messageCount.max
NumPrompts == 2       \* length of chatPrompts
RandSteps == 4        \* Math.random() takes the values 0/RandSteps .. (RandSteps-1)/RandSteps
CreditUnit == 5       \* the non-zero balance a credit payload field may carry
NumProxies == 2       \* length of the proxy pool when a proxy mode is in use
NumUserAgents == 2    \* length of the userAgents list
MaxPool == 6          \* longest proxy pool when the proxy lease is taken alone
DelaySpread == 2      \* max - min of the configured typingDelay and sessionDelay ranges (ms)

(* Program constants *)

maxAttempts == 2          \* authenticate
SiweRetries == 3          \* initSIWE / authenticateSIWE / login
CreditRetries == 5        \* checkCredit
AgentRetries == 3         \* getAgentInfo
ChatRetries == 3          \* sendChatMessage
DefaultFreeCredits == 480 \* checkCredit's default free_credits "480.0000"
MaxProxyTests == 5        \* getWorkingProxy tests at most 5 proxies
HttpTimeout == 30000      \* createAxiosInstance: timeout (ms)
FallbackAgentId == 4717   \* getAgentInfo: id of the hardcoded agent
ReadingDelayMin == 2000   \* startChatSession: randomDelay(2000, 8000)
ReadingDelayMax == 8000

----------------------------------------------------------------------------
(* Math.random(): a value r/RandSteps in [0, 1) *)

Random == 0 .. (RandSteps - 1)

\* Math.floor(Math.random() * n) for the random value r/RandSteps
FloorRandomMutCeil(r, n) == (r * n) \div RandSteps + 1

FloorRandom(r, n) == (r * n) \div RandSteps

\* randomDelay(min, max): Math.floor(Math.random() * (max - min + 1)) + min
randomDelayMutNoMin(r, min, max) == FloorRandom(r, max - min + 1)

randomDelay(r, min, max) == FloorRandom(r, max - min + 1) + min

\* getRandomUserAgent(): userAgents[Math.floor(Math.random() * userAgents.length)],
\* a user agent being named by its place 1 .. NumUserAgents in the list
getRandomUserAgent(r) == FloorRandom(r, NumUserAgents) + 1

\* createAxiosInstance: const ua = userAgent || getRandomUserAgent()  (0: none given)
CreateAxiosUserAgentMutRandom(userAgent, r) == getRandomUserAgent(r)

CreateAxiosUserAgent(userAgent, r) ==
  IF userAgent # 0 THEN userAgent ELSE getRandomUserAgent(r)

----------------------------------------------------------------------------
(* HTTP outcomes *)

\* an axios error: with a response (HTTP status) or without one (network error, timeout)
HttpError(status) == [resp |-> TRUE, status |-> status]
NoResponse == [resp |-> FALSE, status |-> 0]
NoError == [resp |-> FALSE, status |-> -1]

Errors == {HttpError(404), HttpError(500), HttpError(429), HttpError(503), NoResponse}

\* a JSON field of the credit payload: absent (undefined), null, or a number
Absent == [k |-> "absent", v |-> 0]
NullField == [k |-> "null", v |-> 0]
Num(n) == [k |-> "num", v |-> n]
FieldValues == {Absent, NullField, Num(0), Num(CreditUnit)}

\* response.data of a 2xx response; credits / free only matter for the credit endpoint
Payload(kind) == [kind |-> kind, credits |-> Absent, free |-> Absent]
NoData == Payload("none")

\* the payload kind a call site gets when the request succeeds as the code expects
ExpectedPayload(site) ==
  CASE site = "nonce"  -> "nonce"
    [] site = "verify" -> "token"
    [] site = "login"  -> "access"
    [] site = "credit" -> "obj"
    [] site = "agent"  -> "agent"
    [] site = "chat"   -> "normal"

Payloads(site) ==
  CASE site = "nonce"  -> {Payload("null"), Payload("noNonce"), Payload("nonce")}
    [] site = "verify" -> {Payload("null"), Payload("noToken"), Payload("token")}
    [] site = "login"  -> {Payload("null"), Payload("empty"), Payload("noAccess"), Payload("access")}
    [] site = "credit" -> {Payload("null")} \cup
                          {[kind |-> "obj", credits |-> c, free |-> f] :
                             c \in FieldValues, f \in FieldValues}
    [] site = "agent"  -> {Payload("null"), Payload("emptyArr"), Payload("noId"), Payload("agent")}
    [] site = "chat"   -> {Payload("null"), Payload("emptyArr"), Payload("insufficient"),
                           Payload("normal")}

----------------------------------------------------------------------------
(* withRetry (utils.js) *)

\* the timeout option of the request a call site issues (ms; 0 is axios'
\* default, no timeout): the platform sites use the instance built by
\* createAxiosInstance, the identity-provider and login sites call axios.post
\* with headers and agents only
RequestTimeout(site) ==
  IF site \in {"credit", "agent", "chat"} THEN HttpTimeout ELSE 0

NoRetry ==
  [site |-> "none", maxRetries |-> 0, retries |-> 0, st |-> "idle", timeout |-> 0,
   userAgent |-> 0, agentId |-> 0, chatId |-> <<>>,
   calls |-> 0, sleeps |-> 0, lastErr |-> NoError, lastSeq |-> 0,
   thrown |-> NoError, thrownSeq |-> 0, data |-> NoData,
   onlyTransient |-> TRUE]

\* withRetry(fn, maxRetries, ...) entered: retries = 0, fn not yet invoked.
\* calls, sleeps, lastErr/lastSeq and onlyTransient record what happened (the
\* invocations of fn, the sleeps, the error of the latest invocation and its
\* number, whether every failure so far was a 429 or 503); the code's own
\* state is retries.
NewRetry(site, maxR) ==
  [NoRetry EXCEPT !.site = site, !.maxRetries = maxR, !.st = "running",
                  !.timeout = RequestTimeout(site)]

\* the condition of the throw in the catch block
ShouldThrowMutNoCap(retries, maxR, error) ==
  error.resp /\ error.status # 429 /\ error.status # 503

ShouldThrowMutRetryAll(retries, maxR, error) ==
  retries >= maxR

ShouldThrowMutNoResponse(retries, maxR, error) ==
  \/ retries >= maxR
  \/ ~(error.resp /\ error.status \in {429, 503})

ShouldThrowMutOffByOne(retries, maxR, error) ==
  \/ retries + 1 >= maxR
  \/ (error.resp /\ error.status # 429 /\ error.status # 503)

ShouldThrow(retries, maxR, error) ==
  \/ retries >= maxR
  \/ (error.resp /\ error.status # 429 /\ error.status # 503)

IsTransient(error) == error.resp /\ error.status \in {429, 503}

\* fn() resolved with a response
RetryReturns(r, data) ==
  [r EXCEPT !.st = "returned", !.calls = @ + 1, !.data = data,
            !.lastErr = NoError, !.lastSeq = 0]

\* fn() rejected with error
RetryCatches(r, error) ==
  LET seen == [r EXCEPT !.calls = @ + 1, !.lastErr = error, !.lastSeq = r.calls + 1,
                        !.onlyTransient = @ /\ IsTransient(error)]
  IN IF ShouldThrow(r.retries, r.maxRetries, error)
       THEN [seen EXCEPT !.st = "threw", !.thrown = error, !.thrownSeq = r.calls + 1]
       ELSE [seen EXCEPT !.st = "sleeping"]

\* await sleep(delay); retries++
RetryWakes(r) ==
  [r EXCEPT !.st = "running", !.sleeps = @ + 1, !.retries = @ + 1]

Finished(r) == r.st \in {"returned", "threw"}

\* the arguments (maxRetries, baseDelay, maxDelay) each call site passes
RetryParams(site) ==
  CASE site \in {"nonce", "verify", "login"} ->
         [maxRetries |-> SiweRetries, baseDelay |-> 5000, maxDelay |-> 60000]
    [] site = "credit" ->
         [maxRetries |-> CreditRetries, baseDelay |-> 5000, maxDelay |-> 60000]
    [] site = "agent" ->
         [maxRetries |-> AgentRetries, baseDelay |-> 3000, maxDelay |-> 30000]
    [] site = "chat" ->
         [maxRetries |-> ChatRetries, baseDelay |-> 5000, maxDelay |-> 30000]

RetrySites == {"nonce", "verify", "login", "credit", "agent", "chat"}

\* Math.pow(2, retries)
RECURSIVE Pow2(_)
Pow2(k) == IF k = 0 THEN 1 ELSE 2 * Pow2(k - 1)

Min(a, b) == IF a <= b THEN a ELSE b

\* Math.min(maxDelay, baseDelay * Math.pow(2, retries) * (0.8 + Math.random() * 0.4))
\* for the random value r/RandSteps, in ms
DelayMutNoCap(maxDelay, baseDelay, retries, r) ==
  (baseDelay * Pow2(retries) * (8 * RandSteps + 4 * r)) \div (10 * RandSteps)

Delay(maxDelay, baseDelay, retries, r) ==
  Min(maxDelay,
      (baseDelay * Pow2(retries) * (8 * RandSteps + 4 * r)) \div (10 * RandSteps))

\* withRetry's loop seen from its backoff only: retries, the delay of the
\* latest sleep (delay) and of the one before (prev); 0 when there was none
BackoffIdle == [site |-> "none", retries |-> 0, delay |-> 0, prev |-> 0, st |-> "idle"]

NewBackoff(site) == [BackoffIdle EXCEPT !.site = site, !.st = "running"]

----------------------------------------------------------------------------
(* Frames *)

\* authenticate: attemptCount / authSuccess are the code's variables; result is
\* what authenticate returned ("none" while it runs). steps, login404 and
\* delayed record what happened: how many of the four steps (nonce, sign,
\* verify, login with access token) the latest attempt completed, whether a
\* login request failed with HTTP 404, whether the loop slept between attempts.
\* currentUserAgent is the attempt's user agent, authData the credential
\* (its userAgent; 0 while there is none).
AuthIdle ==
  [attemptCount |-> 0, authSuccess |-> FALSE, result |-> "none",
   currentUserAgent |-> 0, authData |-> [userAgent |-> 0],
   steps |-> 0, login404 |-> FALSE, delayed |-> FALSE]

\* processWallet: creditData as checkCredit returned it, and checkWalletCredit's
\* snapshot; exhausted records that checkCredit's withRetry gave up after
\* CreditRetries + 1 calls that all failed with 429 or 503
CreditIdle ==
  [ret |-> "none", credits |-> Absent, free |-> Absent,
   snap |-> "none", creditBalance |-> 0, freeCredits |-> 0, totalAvailableCredits |-> 0,
   exhausted |-> FALSE]

\* getWorkingProxy: k is the loop index over the shuffled pool; st tells
\* whether an isProxyWorking test request is pending
ProxyIdle == [k |-> 0, st |-> "idle"]

\* startChatSession: used .. attempts are the code's variables; started, requested,
\* sends, noResponse, insufficient, result record what happened (the session was
\* entered, an agent or chat request was issued, sendChatMessage calls made,
\* follow-up sends that got no response, a response whose first message is
\* "Insufficient balance." was received, the returned value).
\* api is the axios instance (its User-Agent header), agentId and chatId the
\* constants of that name, history the user agent, agent id and chat id the
\* getChatHistory request carried.
ChatIdle ==
  [started |-> FALSE, requested |-> FALSE, api |-> 0, agentId |-> 0, chatId |-> <<>>,
   history |-> <<>>, initialPromptIndex |-> 0, used |-> {},
   promptCount |-> 0, i |-> 0, promptIndex |-> 0, attempts |-> 0,
   sends |-> 0, noResponse |-> 0, insufficient |-> FALSE, result |-> "none"]

\* a parsed proxy: id stands for its fields (protocol, host, port, auth,
\* formatted); agentable tells whether createProxyAgent can build an agent for
\* it (its constructor does not throw). NoProxy is null.
NoProxy == [id |-> 0, agentable |-> FALSE]

\* proxy.txt / the fetched list as parsed: n proxies, the first one with a
\* protocol no agent can be built for when bad = 1
LoadedProxies(n, bad) == [k \in 1 .. n |-> [id |-> k, agentable |-> (k # bad)]]

\* the module globals proxyMode and proxies (loaded: proxies as initialize
\* left it), and the frame of getSessionProxy / getWorkingProxy: shuffled, the
\* loop index i, the returned proxy and the agent built for it; failed and
\* passed record the proxies whose test failed and whether the returned one
\* passed its test, rounds the wallets served so far
LeaseStartup ==
  [st |-> "startup", proxyMode |-> "none", proxies |-> <<>>, loaded |-> <<>>,
   shuffled |-> <<>>, i |-> 0, failed |-> {}, passed |-> FALSE,
   proxy |-> NoProxy, agent |-> "null", rounds |-> 0]

\* [...proxies].sort(() => 0.5 - Math.random()): every order of the copy
Shuffles(proxies) ==
  LET n == Len(proxies)
  IN {[k \in 1 .. n |-> proxies[f[k]]] : f \in Permutations(1 .. n)}

\* proxies after getWorkingProxy shuffled: the sort works on a copy
ProxiesAfterShuffleMutInPlace(proxies, shuffled) == shuffled

ProxiesAfterShuffle(proxies, shuffled) == proxies

\* createProxyAgent(proxy): an agent, or null (no proxy, or the constructor threw)
createProxyAgent(px) == IF px # NoProxy /\ px.agentable THEN "agent" ELSE "null"

\* getSessionProxy returns for the proxy getWorkingProxy returned
SessionProxy(l, px, passed) ==
  [l EXCEPT !.st = "leased", !.proxy = px, !.passed = passed,
            !.agent = createProxyAgent(px)]

----------------------------------------------------------------------------
(* Initial states: config.json and priv.txt as loaded *)

\* proxies is the length of the pool after initialize(); 0 stands for proxyMode
\* 'none' (chosen, or forced by a missing or empty pool)
TypingDelay == [min |-> 1000, max |-> 1000 + DelaySpread]
SessionDelay == [min |-> 30000, max |-> 30000 + DelaySpread]

Configs ==
  {[minCreditBalance |-> m, min |-> lo, max |-> hi, proxies |-> 0,
    typingDelay |-> TypingDelay, sessionDelay |-> SessionDelay] :
     m \in {0, CreditUnit, DefaultFreeCredits + CreditUnit}, lo \in {1, 2}, hi \in {2, MaxMsgs}}
  \cup {[minCreditBalance |-> 0, min |-> 1, max |-> 2, proxies |-> NumProxies,
          typingDelay |-> TypingDelay, sessionDelay |-> SessionDelay]}

KeyLists == UNION {[1 .. n -> {"valid", "invalid"}] : n \in 0 .. MaxKeys}

Init ==
  /\ cfg \in {c \in Configs : c.min <= c.max}
  /\ privateKeys \in KeyLists
  /\ i = 0
  /\ successCount = 0
  /\ failCount = 0
  /\ pc = "mainLoop"
  /\ proxy = ProxyIdle
  /\ rt = NoRetry
  /\ auth = AuthIdle
  /\ credit = CreditIdle
  /\ chat = ChatIdle
  /\ success = FALSE
  /\ allOk = TRUE
  /\ backoff = BackoffIdle
  /\ delay = 0
  /\ lease = LeaseStartup

\* processWalletSession returns ok to main
SessionReturns(ok) == pc' = "record" /\ success' = ok

----------------------------------------------------------------------------
(* withRetry's steps *)

\* fn() is invoked: the environment answers with a 2xx payload or an error
RetryInvoke ==
  /\ rt.st = "running"
  /\ \/ \E data \in Payloads(rt.site) :
          /\ rt' = RetryReturns(rt, data)
          /\ allOk' = (allOk /\ data.kind = ExpectedPayload(rt.site))
     \/ \E error \in Errors :
          /\ rt' = RetryCatches(rt, error)
          /\ allOk' = FALSE
  /\ chat' = IF rt.site \in {"agent", "chat"} THEN [chat EXCEPT !.requested = TRUE] ELSE chat
  /\ credit' = IF rt.site = "agent" THEN CreditIdle ELSE credit   \* creditData is not read inside startChatSession
  /\ UNCHANGED <<cfg, backoff, lease, delay, proxy, privateKeys, i, successCount, failCount, pc, auth, success>>

\* the backoff sleep ends
RetrySleep ==
  /\ rt.st = "sleeping"
  /\ rt' = RetryWakes(rt)
  /\ UNCHANGED <<cfg, backoff, lease, delay, allOk, proxy, privateKeys, i, successCount, failCount, pc, auth, credit, chat, success>>

----------------------------------------------------------------------------
(* main and processWalletSession / processWallet up to authenticate *)

\* initWallet(privateKey): null for a key ethers rejects
initWalletMutAnyKey(key) == "wallet"

initWallet(key) == IF key = "valid" THEN "wallet" ELSE "null"

\* Math.min(5, shuffled.length)
ProxyTestsMutNoCap(n) == n

ProxyTests(n) == IF n < MaxProxyTests THEN n ELSE MaxProxyTests

\* processWallet(privateKey, proxyAgent) up to authenticate
ProcessWalletStarts ==
  IF initWallet(privateKeys[i + 1]) = "null"
    THEN SessionReturns(FALSE)
    ELSE pc' = "authLoop" /\ UNCHANGED success

\* main's for loop: the next wallet (processWalletSession up to the first
\* request: a proxy test or, without proxies, processWallet), or the summary
MainLoop ==
  /\ pc = "mainLoop"
  /\ IF i < Len(privateKeys)
       THEN /\ credit' = CreditIdle
            /\ chat' = ChatIdle
            /\ auth' = AuthIdle
            /\ allOk' = TRUE
            /\ IF cfg.proxies = 0
                 THEN /\ ProcessWalletStarts              \* getSessionProxy returns null
                      /\ UNCHANGED proxy
                 ELSE /\ pc' = "getWorkingProxy"
                      /\ proxy' = [k |-> 0, st |-> "testing"]
                      /\ UNCHANGED success
       ELSE /\ pc' = "done"
            /\ UNCHANGED <<proxy, auth, credit, chat, success, allOk>>
  /\ delay' = 0
  /\ UNCHANGED <<cfg, backoff, lease, privateKeys, i, successCount, failCount, rt>>

\* isProxyWorking(shuffled[k]) answered: the proxy is leased if it works or
\* if it was the last one tested (shuffled[0] is returned although no test
\* passed); otherwise the next proxy is tested
IsProxyWorkingReturn ==
  /\ pc = "getWorkingProxy"
  /\ proxy.st = "testing"
  /\ \E working \in BOOLEAN :
       IF working \/ proxy.k + 1 >= ProxyTests(cfg.proxies)
         THEN /\ proxy' = ProxyIdle
              /\ ProcessWalletStarts
         ELSE /\ proxy' = [proxy EXCEPT !.k = @ + 1]
              /\ UNCHANGED <<pc, success>>
  /\ UNCHANGED <<cfg, backoff, lease, delay, allOk, privateKeys, i, successCount, failCount, rt, auth, credit, chat>>

\* main: count the outcome, sleep between wallets, i++
RecordMutAbort ==
  /\ pc = "record"
  /\ IF success
       THEN successCount' = successCount + 1 /\ UNCHANGED failCount
       ELSE failCount' = failCount + 1 /\ UNCHANGED successCount
  /\ i' = i + 1
  /\ pc' = IF success THEN "mainLoop" ELSE "done"
  /\ UNCHANGED <<cfg, backoff, lease, delay, allOk, proxy, privateKeys, rt, auth, credit, chat, success>>

RecordMutNoAwait ==
  /\ pc \notin {"mainLoop", "done"}
  /\ IF success
       THEN successCount' = successCount + 1 /\ UNCHANGED failCount
       ELSE failCount' = failCount + 1 /\ UNCHANGED successCount
  /\ i' = i + 1
  /\ pc' = "mainLoop"
  /\ UNCHANGED <<cfg, backoff, lease, delay, allOk, proxy, privateKeys, rt, auth, credit, chat, success>>

SleepsBetweenWalletsMutAlways(index, length) == index < length

\* if (i < privateKeys.length - 1)
SleepsBetweenWallets(index, length) == index < length - 1

Record ==
  /\ pc = "record"
  /\ IF success
       THEN successCount' = successCount + 1 /\ UNCHANGED failCount
       ELSE failCount' = failCount + 1 /\ UNCHANGED successCount
  /\ IF SleepsBetweenWallets(i, Len(privateKeys))
       THEN \E r \in Random :                  \* await sleep(delay)
              delay' = randomDelay(r, cfg.sessionDelay.min, cfg.sessionDelay.max)
       ELSE delay' = 0
  /\ i' = i + 1
  /\ pc' = "mainLoop"
  /\ UNCHANGED <<cfg, backoff, lease, allOk, proxy, privateKeys, rt, auth, credit, chat, success>>

----------------------------------------------------------------------------
(* authenticate, the attempt-loop variant (auth.js) *)

\* JavaScript falsiness of response.data: null or the empty string
FalsyMutNever(kind) == FALSE

Falsy(kind) == kind \in {"null", "empty"}

\* while (!authSuccess && attemptCount < maxAttempts)
LoopContinuesMutForever(authSuccess, attemptCount) == ~authSuccess

LoopContinues(authSuccess, attemptCount) ==
  ~authSuccess /\ attemptCount < maxAttempts

\* initSIWE / authenticateSIWE: response.data, or null from the catch block
SiweResult(r) == IF r.st = "returned" THEN r.data.kind ELSE "null"

\* login: response.data; null for a 404 (inner catch) and, through the
\* rethrow into the outer catch, for every other error
LoginResult(r) == IF r.st = "returned" THEN r.data.kind ELSE "null"

\* authenticate after login returned: the loop goes on, breaks, or has succeeded
LoginVerdictMutContinue(loginData) ==
  IF Falsy(loginData) \/ loginData # "access" THEN "continue" ELSE "success"

LoginVerdictMutNoToken(loginData) ==
  IF Falsy(loginData)
    THEN (IF loginData = "null" THEN "break" ELSE "continue")
    ELSE "success"

LoginVerdict(loginData) ==
  IF Falsy(loginData) \/ loginData # "access"
    THEN (IF loginData = "null" THEN "break" ELSE "continue")
    ELSE "success"

\* wallet.signMessage(message): a signature, a falsy value, or an exception
SignOutcomes == {"signature", "empty", "throws"}

\* after the loop: return authData, or null
AuthExitMutTyped(a) ==
  [a EXCEPT !.result = IF a.authSuccess THEN "cred"
                       ELSE IF a.login404 THEN "UnregisteredWallet" ELSE "null"]

AuthExit(a) == [a EXCEPT !.result = IF a.authSuccess THEN "cred" ELSE "null"]

\* the loop condition and, if it holds, the attempt up to the nonce request
AuthLoop ==
  /\ pc = "authLoop"
  /\ IF LoopContinues(auth.authSuccess, auth.attemptCount)
       THEN \E r \in Random :
              \* attemptCount === 1 ? userAgent : getRandomUserAgent(), userAgent
              \* being drawn by getRandomUserAgent() before the loop
              LET currentUserAgent == getRandomUserAgent(r)
              IN /\ auth' = [auth EXCEPT !.attemptCount = @ + 1, !.steps = 0,
                                         !.currentUserAgent = currentUserAgent]
                 /\ rt' = [NewRetry("nonce", SiweRetries) EXCEPT
                             !.userAgent = currentUserAgent]
                 /\ pc' = "initSIWE"
       ELSE /\ auth' = AuthExit(auth)
            /\ pc' = "authReturn"
            /\ UNCHANGED rt
  /\ UNCHANGED <<cfg, backoff, lease, delay, allOk, proxy, privateKeys, i, successCount, failCount, credit, chat, success>>

\* initSIWE returned: step 1 checked, step 2 (sign), step 3 requested
InitSIWEReturn ==
  /\ pc = "initSIWE"
  /\ Finished(rt)
  /\ LET siweData == SiweResult(rt)
         got == IF rt.st = "returned" /\ rt.data.kind # "null" THEN 1 ELSE 0
     IN IF Falsy(siweData)
          THEN /\ pc' = "authLoop"                       \* continue
               /\ rt' = NoRetry
               /\ auth' = [auth EXCEPT !.steps = got]
               /\ UNCHANGED allOk
          ELSE \E signature \in SignOutcomes :
                 CASE signature = "throws" ->
                        /\ pc' = "authDelay"             \* caught by the attempt's catch
                        /\ rt' = NoRetry
                        /\ auth' = [auth EXCEPT !.steps = got]
                        /\ allOk' = FALSE
                   [] signature = "empty" ->
                        /\ pc' = "authLoop"              \* continue
                        /\ rt' = NoRetry
                        /\ auth' = [auth EXCEPT !.steps = got]
                        /\ allOk' = FALSE
                   [] signature = "signature" ->
                        /\ pc' = "authSIWE"
                        /\ rt' = [NewRetry("verify", SiweRetries) EXCEPT
                                    !.userAgent = auth.currentUserAgent]
                        /\ auth' = [auth EXCEPT !.steps = got + 1]
                        /\ UNCHANGED allOk
  /\ UNCHANGED <<cfg, backoff, lease, delay, proxy, privateKeys, i, successCount, failCount, credit, chat, success>>

\* authenticateSIWE returned: step 3 checked, step 4 requested
AuthSIWEReturn ==
  /\ pc = "authSIWE"
  /\ Finished(rt)
  /\ LET siweAuthData == SiweResult(rt)
         got == IF rt.st = "returned" /\ rt.data.kind = "token" THEN 1 ELSE 0
     IN IF Falsy(siweAuthData) \/ siweAuthData # "token"
          THEN /\ pc' = "authLoop"                       \* continue
               /\ rt' = NoRetry
               /\ auth' = [auth EXCEPT !.steps = @ + got]
          ELSE /\ pc' = "login"
               /\ rt' = [NewRetry("login", SiweRetries) EXCEPT
                           !.userAgent = auth.currentUserAgent]
               /\ auth' = [auth EXCEPT !.steps = @ + got]
  /\ UNCHANGED <<cfg, backoff, lease, delay, allOk, proxy, privateKeys, i, successCount, failCount, credit, chat, success>>

\* login returned: success, break (loginData === null) or continue
LoginReturn ==
  /\ pc = "login"
  /\ Finished(rt)
  /\ LET loginData == LoginResult(rt)
         verdict == LoginVerdict(loginData)
         got == IF rt.st = "returned" /\ rt.data.kind = "access" THEN 1 ELSE 0
         seen == [auth EXCEPT !.steps = @ + got,
                              !.login404 = rt.st = "threw" /\ rt.thrown = HttpError(404)]
     IN CASE verdict = "success" ->
               /\ auth' = AuthExit([seen EXCEPT !.authSuccess = TRUE,
                                                !.authData = [userAgent |-> auth.currentUserAgent]])
               /\ pc' = "authReturn"                     \* break
          [] verdict = "break" ->
               /\ auth' = AuthExit(seen)
               /\ pc' = "authReturn"
          [] verdict = "continue" ->
               /\ auth' = seen
               /\ pc' = "authLoop"
  /\ rt' = NoRetry
  /\ UNCHANGED <<cfg, backoff, lease, delay, allOk, proxy, privateKeys, i, successCount, failCount, credit, chat, success>>

\* after the attempt's catch block: the 5-10 s delay before the next attempt
AuthDelay ==
  /\ pc = "authDelay"
  /\ auth' = [auth EXCEPT !.delayed = @ \/ (~auth.authSuccess /\ auth.attemptCount < maxAttempts)]
  /\ pc' = "authLoop"
  /\ UNCHANGED <<cfg, backoff, lease, delay, allOk, proxy, privateKeys, i, successCount, failCount, rt, credit, chat, success>>

\* processWallet after authenticate: fail the wallet, or checkWalletCredit -> checkCredit
AuthReturn ==
  /\ pc = "authReturn"
  /\ auth' = [AuthIdle EXCEPT !.result = auth.result, !.authData = auth.authData]
  /\ IF auth.result = "null"
       THEN /\ SessionReturns(FALSE)
            /\ UNCHANGED rt
       ELSE \E r \in Random :                  \* checkWalletCredit: createAxiosInstance
              /\ pc' = "checkCredit"
              /\ rt' = [NewRetry("credit", CreditRetries) EXCEPT
                          !.userAgent = CreateAxiosUserAgent(auth.authData.userAgent, r)]
              /\ UNCHANGED success
  /\ UNCHANGED <<cfg, backoff, lease, delay, allOk, proxy, privateKeys, i, successCount, failCount, credit, chat>>

----------------------------------------------------------------------------
(* checkCredit (api.js), checkWalletCredit (wallet.js) and the credit gate *)

\* JavaScript truthiness of a payload field
Truthy(field) == field.k = "num" /\ field.v # 0

\* field || dflt
OrElse(field, dflt) == IF Truthy(field) THEN field ELSE dflt

NullCredit == [ret |-> "null", credits |-> Absent, free |-> Absent]

\* the object built when the payload lacks both balance fields, and in the catch block
DefaultCreditMutZero == [ret |-> "obj", credits |-> Num(0), free |-> Num(0)]

DefaultCredit == [ret |-> "obj", credits |-> Num(0), free |-> Num(DefaultFreeCredits)]

\* checkCredit: the value it returns for what withRetry returned or threw
CheckCredit(r) ==
  IF r.st = "returned"
    THEN LET data == r.data
         IN IF data.kind = "null" \/ (data.credits.k = "absent" /\ data.free.k = "absent")
              THEN (IF data.kind # "null"
                      THEN \* { credits: ... || "0", free_credits: ... || "480.0000", ...data }
                           [ret |-> "obj",
                            credits |-> IF data.credits.k # "absent" THEN data.credits
                                        ELSE OrElse(data.credits, Num(0)),
                            free |-> IF data.free.k # "absent" THEN data.free
                                     ELSE OrElse(data.free, Num(DefaultFreeCredits))]
                      ELSE NullCredit)                   \* falls through to return response.data
              ELSE [ret |-> "obj", credits |-> data.credits, free |-> data.free]
    ELSE DefaultCredit

\* parseFloat(field || 0)
ParseCreditMutDefault(field) == OrElse(field, Num(DefaultFreeCredits)).v

ParseCredit(field) == OrElse(field, Num(0)).v

\* checkWalletCredit: null, or the snapshot
CheckWalletCreditMutPaidOnly(creditData) ==
  IF creditData.ret = "null"
    THEN [CreditIdle EXCEPT !.ret = "null", !.snap = "null"]
    ELSE LET creditBalance == ParseCredit(creditData.credits)
             freeCredits == ParseCredit(creditData.free)
         IN [ret |-> "obj", credits |-> creditData.credits, free |-> creditData.free,
             snap |-> "snap", creditBalance |-> creditBalance, freeCredits |-> freeCredits,
             totalAvailableCredits |-> creditBalance,
             exhausted |-> FALSE]

CheckWalletCredit(creditData) ==
  IF creditData.ret = "null"
    THEN [CreditIdle EXCEPT !.ret = "null", !.snap = "null"]
    ELSE LET creditBalance == ParseCredit(creditData.credits)
             freeCredits == ParseCredit(creditData.free)
         IN [ret |-> "obj", credits |-> creditData.credits, free |-> creditData.free,
             snap |-> "snap", creditBalance |-> creditBalance, freeCredits |-> freeCredits,
             totalAvailableCredits |-> creditBalance + freeCredits,
             exhausted |-> FALSE]

\* processWalletSession: if (creditData.totalAvailableCredits < config.minCreditBalance) skip
GateSkipsMutNever(total, minCreditBalance) == FALSE

GateSkipsMutStrict(total, minCreditBalance) == total <= minCreditBalance

GateSkips(total, minCreditBalance) == total < minCreditBalance

\* checkCredit returned: the snapshot, the gate, and startChatSession up to getAgentInfo
CheckCreditReturn ==
  /\ pc = "checkCredit"
  /\ Finished(rt)
  /\ LET snapshot == CheckWalletCredit(CheckCredit(rt))
     IN /\ credit' = [snapshot EXCEPT !.exhausted = /\ rt.st = "threw"
                                                   /\ rt.calls = CreditRetries + 1
                                                   /\ rt.onlyTransient]
        /\ IF snapshot.snap = "null"
             THEN /\ SessionReturns(FALSE)               \* processWallet returns null
                  /\ rt' = NoRetry
                  /\ UNCHANGED chat
             ELSE IF GateSkips(snapshot.totalAvailableCredits, cfg.minCreditBalance)
                    THEN /\ SessionReturns(FALSE)
                         /\ rt' = NoRetry
                         /\ UNCHANGED chat
                    ELSE \E r \in Random :     \* startChatSession: createAxiosInstance
                           LET api == CreateAxiosUserAgent(auth.authData.userAgent, r)
                           IN /\ chat' = [ChatIdle EXCEPT !.started = TRUE, !.api = api]
                              /\ rt' = [NewRetry("agent", AgentRetries) EXCEPT
                                          !.userAgent = api]
                              /\ pc' = "getAgent"
                              /\ UNCHANGED success
  /\ UNCHANGED <<cfg, backoff, lease, delay, allOk, proxy, privateKeys, i, successCount, failCount, auth>>

----------------------------------------------------------------------------
(* startChatSession (chat.js), getAgentInfo and sendChatMessage (api.js) *)

\* getAgentInfo: data[0] of a non-empty array, else the hardcoded agent (id 4717)
GetAgentInfoMutNull(r) ==
  IF r.st = "returned" /\ r.data.kind \in {"noId", "agent"} THEN r.data.kind ELSE "null"

GetAgentInfo(r) ==
  IF r.st = "returned" /\ r.data.kind \in {"noId", "agent"} THEN r.data.kind ELSE "fallback"

\* !agent || !agent.id
AgentUnusable(agent) == agent \in {"null", "noId"}

\* response.data[0].id of a listed agent
ListedAgentId == 1

\* agent.id: of the listed agent, of the hardcoded one, or missing (0)
AgentId(agent) ==
  CASE agent = "agent" -> ListedAgentId
    [] agent = "fallback" -> FallbackAgentId
    [] OTHER -> 0

\* Date.now() when the chat id is generated (ms)
Now == {1999, 2000}

\* generateChatId(walletAddress): `${walletAddress}-${Math.floor(Date.now() / 1000)}`
generateChatIdMutMillis(walletAddress, now) == <<walletAddress, now>>

generateChatId(walletAddress, now) == <<walletAddress, now \div 1000>>

\* the POST /v1/chat request of sendChatMessage(api, prompt, agentId, walletAddress, chatId)
ChatPost(api, agentId, chatId) ==
  [NewRetry("chat", ChatRetries) EXCEPT !.userAgent = api, !.agentId = agentId,
                                        !.chatId = chatId]

\* sendChatMessage: the insufficient-balance indicator object, response.data, or [] from the catch
SendChatMessage(r) ==
  IF r.st = "returned"
    THEN (IF r.data.kind = "insufficient" THEN "indicator" ELSE r.data.kind)
    ELSE "emptyArr"

\* !response || response.length === 0
NoResponseReceivedMutNever(response) == FALSE

NoResponseReceivedMutIndicator(response) == response \in {"null", "emptyArr", "indicator"}

NoResponseReceived(response) == response \in {"null", "emptyArr"}

\* the first message of a 2xx chat response reads "Insufficient balance."
InsufficientBalance(r) == r.st = "returned" /\ r.data.kind = "insufficient"

\* Math.floor(Math.random() * (max - min + 1)) + min - 1
PromptCountMutNone(r, min, max) == 0

PromptCountMutNoMinusOne(r, min, max) == FloorRandom(r, max - min + 1) + min

PromptCount(r, min, max) == FloorRandom(r, max - min + 1) + min - 1

\* getRandomItem(arr, index): the index of the item it returns, for an array
\* of n items and the random value r/RandSteps
getRandomItem(n, index, r) ==
  IF index >= 0 /\ index < n THEN index ELSE FloorRandom(r, n)

\* getAgentInfo returned: the agent check, the opening prompt and its send
GetAgentReturn ==
  /\ pc = "getAgent"
  /\ Finished(rt)
  /\ IF AgentUnusable(GetAgentInfo(rt))
       THEN /\ chat' = [chat EXCEPT !.result = "false"]
            /\ SessionReturns(FALSE)
            /\ rt' = NoRetry
       ELSE \E r \in Random, r2 \in Random, now \in Now :
              LET initialPromptIndex == FloorRandom(r, NumPrompts)
                  agentId == AgentId(GetAgentInfo(rt))
                  chatId == generateChatId(i + 1, now)
              IN /\ chat' = [chat EXCEPT !.agentId = agentId,
                                         !.chatId = chatId,
                                         !.initialPromptIndex = initialPromptIndex,
                                         !.used = {initialPromptIndex},
                                         !.promptIndex =
                                            getRandomItem(NumPrompts, initialPromptIndex, r2),
                                         !.sends = @ + 1]
                 /\ rt' = ChatPost(chat.api, agentId, chatId)
                 /\ pc' = "chatInitial"
                 /\ UNCHANGED success
  /\ UNCHANGED <<cfg, backoff, lease, delay, allOk, proxy, privateKeys, i, successCount, failCount, auth, credit>>

\* the opening send returned: fail the session, or go on to getChatHistory
ChatInitialReturn ==
  /\ pc = "chatInitial"
  /\ Finished(rt)
  /\ LET initialResponse == SendChatMessage(rt)
         seen == [chat EXCEPT !.insufficient = @ \/ InsufficientBalance(rt)]
     IN IF NoResponseReceived(initialResponse)
          THEN /\ chat' = [seen EXCEPT !.result = "false"]
               /\ SessionReturns(FALSE)
          ELSE /\ chat' = [seen EXCEPT !.history = <<chat.api, chat.agentId, chat.chatId>>]
               /\ pc' = "chatHistory"          \* GET /v1/chat?agent_id=..&chat_id=..
               /\ UNCHANGED success
  /\ rt' = NoRetry
  /\ UNCHANGED <<cfg, backoff, lease, delay, allOk, proxy, privateKeys, i, successCount, failCount, auth, credit>>

\* getChatHistory returned (its result is not used); promptCount is drawn
ChatHistoryReturn ==
  /\ pc = "chatHistory"
  /\ \E r \in Random :
       chat' = [chat EXCEPT !.promptCount = PromptCount(r, cfg.min, cfg.max), !.i = 0,
                            !.requested = TRUE]
  /\ pc' = "chatLoop"
  /\ UNCHANGED <<cfg, backoff, lease, delay, allOk, proxy, privateKeys, i, successCount, failCount, rt, auth, credit, success>>

\* for (let i = 0; i < promptCount; i++): next follow-up, or the session completes
ChatLoop ==
  /\ pc = "chatLoop"
  /\ IF chat.i < chat.promptCount
       THEN /\ chat' = [chat EXCEPT !.attempts = 0]
            /\ pc' = "chatPick"
            /\ UNCHANGED success
       ELSE /\ chat' = [chat EXCEPT !.result = "true"]
            /\ SessionReturns(TRUE)
  /\ UNCHANGED <<cfg, backoff, lease, delay, allOk, proxy, privateKeys, i, successCount, failCount, rt, auth, credit>>

\* one iteration of the do-while that draws promptIndex; on exit the follow-up is sent
ChatPick ==
  /\ pc = "chatPick"
  /\ \E r \in Random :
       LET promptIndex == FloorRandom(r, NumPrompts)
           attempts == chat.attempts + 1
           used == IF attempts > NumPrompts THEN {chat.initialPromptIndex} ELSE chat.used
       IN IF promptIndex \in used /\ attempts <= NumPrompts
            THEN /\ chat' = [chat EXCEPT !.promptIndex = promptIndex, !.attempts = attempts,
                                         !.used = used]
                 /\ UNCHANGED <<pc, delay>>
            ELSE \E r2 \in Random :
                   /\ chat' = [chat EXCEPT !.promptIndex = promptIndex, !.attempts = 0,
                                           !.used = used \cup {promptIndex}]
                   /\ delay' = randomDelay(r2, cfg.typingDelay.min, cfg.typingDelay.max)
                   /\ pc' = "typingDelay"           \* await sleep(messageDelay)
  /\ UNCHANGED <<cfg, backoff, lease, allOk, proxy, privateKeys, i, successCount, failCount, rt, auth, credit, success>>

\* the typing delay ends: the follow-up is sent
TypingDelayEnds ==
  /\ pc = "typingDelay"
  /\ chat' = [chat EXCEPT !.sends = @ + 1]
  /\ rt' = ChatPost(chat.api, chat.agentId, chat.chatId)
  /\ pc' = "chatFollowup"
  /\ delay' = 0
  /\ UNCHANGED <<cfg, backoff, lease, allOk, proxy, privateKeys, i, successCount, failCount, auth, credit, success>>

\* a follow-up send returned: continue (i++) after a failure, else the reading delay
ChatFollowupReturn ==
  /\ pc = "chatFollowup"
  /\ Finished(rt)
  /\ LET response == SendChatMessage(rt)
         seen == [chat EXCEPT !.insufficient = @ \/ InsufficientBalance(rt)]
     IN IF NoResponseReceived(response)
          THEN /\ chat' = [seen EXCEPT !.i = @ + 1, !.noResponse = @ + 1]   \* continue
               /\ pc' = "chatLoop"
               /\ UNCHANGED delay
          ELSE \E r \in Random :
                 /\ chat' = seen
                 /\ delay' = randomDelay(r, ReadingDelayMin, ReadingDelayMax)
                 /\ pc' = "readingDelay"              \* await sleep(readingDelay)
  /\ rt' = NoRetry
  /\ UNCHANGED <<cfg, backoff, lease, allOk, proxy, privateKeys, i, successCount, failCount, auth, credit, success>>

\* the reading delay ends: i++
ReadingDelayEnds ==
  /\ pc = "readingDelay"
  /\ chat' = [chat EXCEPT !.i = @ + 1]
  /\ pc' = "chatLoop"
  /\ delay' = 0
  /\ UNCHANGED <<cfg, backoff, lease, allOk, proxy, privateKeys, i, successCount, failCount, rt, auth, credit, success>>

----------------------------------------------------------------------------
(* The specification *)

Next ==
  \/ MainLoop
  \/ IsProxyWorkingReturn
  \/ Record
  \/ RetryInvoke
  \/ RetrySleep
  \/ AuthLoop
  \/ InitSIWEReturn
  \/ AuthSIWEReturn
  \/ LoginReturn
  \/ AuthDelay
  \/ AuthReturn
  \/ CheckCreditReturn
  \/ GetAgentReturn
  \/ ChatInitialReturn
  \/ ChatHistoryReturn
  \/ ChatLoop
  \/ ChatPick
  \/ TypingDelayEnds
  \/ ChatFollowupReturn
  \/ ReadingDelayEnds

Spec == Init /\ [][Next]_vars

\* withRetry alone, called as one of the call sites calls it: fn fails with a
\* retryable error some number of times, then returns or throws
InitBackoff == Init /\ privateKeys = <<>> /\ cfg.proxies = NumProxies

\* withRetry(fn, maxRetries, baseDelay, maxDelay) entered from a call site
BackoffStarts ==
  /\ backoff.st = "idle"
  /\ \E site \in RetrySites : backoff' = NewBackoff(site)
  /\ UNCHANGED <<cfg, proxy, privateKeys, i, successCount, failCount, pc, rt, auth, credit,
                 chat, success, allOk, delay, lease>>

\* the catch block for a retryable error below the cap: delay, sleep, retries++
BackoffCatch ==
  /\ backoff.st = "running"
  /\ ~ShouldThrow(backoff.retries, RetryParams(backoff.site).maxRetries, NoResponse)
  /\ \E r \in Random :
       backoff' = [backoff EXCEPT
                     !.prev = backoff.delay,
                     !.delay = Delay(RetryParams(backoff.site).maxDelay,
                                     RetryParams(backoff.site).baseDelay,
                                     backoff.retries, r),
                     !.retries = @ + 1]
  /\ UNCHANGED <<cfg, proxy, privateKeys, i, successCount, failCount, pc, rt, auth, credit,
                 chat, success, allOk, delay, lease>>

\* fn returns, or the error is thrown
BackoffEnds ==
  /\ backoff.st = "running"
  /\ backoff' = [backoff EXCEPT !.st = "done"]
  /\ UNCHANGED <<cfg, proxy, privateKeys, i, successCount, failCount, pc, rt, auth, credit,
                 chat, success, allOk, delay, lease>>

NextBackoff == BackoffStarts \/ BackoffCatch \/ BackoffEnds

BackoffSpec == InitBackoff /\ [][NextBackoff]_vars

\* The proxy lease alone: initialize loads the pool, then getSessionProxy runs
\* once per wallet
InitLease == Init /\ privateKeys = <<>> /\ cfg.proxies = NumProxies

\* initialize: the proxy mode is chosen and the pool loaded; a proxy mode
\* with an empty pool becomes 'none'
initialize ==
  /\ lease.st = "startup"
  /\ \E mode \in {"none", "private"}, n \in 0 .. MaxPool, bad \in {0, 1} :
       LET proxies == IF mode = "none" THEN <<>> ELSE LoadedProxies(n, bad)
       IN lease' = [lease EXCEPT !.st = "idle",
                                 !.proxyMode = IF Len(proxies) = 0 THEN "none" ELSE mode,
                                 !.proxies = proxies,
                                 !.loaded = proxies]
  /\ UNCHANGED <<cfg, proxy, privateKeys, i, successCount, failCount, pc, rt, auth, credit,
                 chat, success, allOk, delay, backoff>>

\* processWalletSession calls getSessionProxy: null without proxies, else
\* getWorkingProxy shuffles a copy of the pool and tests shuffled[0]
getSessionProxy ==
  /\ lease.st = "idle"
  /\ lease.rounds < MaxKeys
  /\ IF lease.proxyMode = "none" \/ Len(lease.proxies) = 0
       THEN lease' = SessionProxy(lease, NoProxy, FALSE)
       ELSE \E shuffled \in Shuffles(lease.proxies) :
              lease' = [lease EXCEPT !.st = "testing",
                                     !.shuffled = shuffled,
                                     !.proxies = ProxiesAfterShuffle(lease.proxies, shuffled),
                                     !.i = 0]
  /\ UNCHANGED <<cfg, proxy, privateKeys, i, successCount, failCount, pc, rt, auth, credit,
                 chat, success, allOk, delay, backoff>>

\* isProxyWorking(shuffled[i]) returned: false at once when no agent can be
\* built, else what the test request showed; getWorkingProxy returns the
\* proxy, goes on, or after the last test returns shuffled[0]
isProxyWorking ==
  /\ lease.st = "testing"
  /\ LET tested == lease.shuffled[lease.i + 1]
     IN \E working \in (IF createProxyAgent(tested) = "null" THEN {FALSE} ELSE BOOLEAN) :
          IF working
            THEN lease' = SessionProxy(lease, tested, TRUE)
            ELSE LET seen == [lease EXCEPT !.failed = @ \cup {tested.id}]
                 IN IF lease.i + 1 < ProxyTests(Len(lease.shuffled))
                      THEN lease' = [seen EXCEPT !.i = @ + 1]
                      ELSE lease' = SessionProxy(seen, lease.shuffled[1], FALSE)
  /\ UNCHANGED <<cfg, proxy, privateKeys, i, successCount, failCount, pc, rt, auth, credit,
                 chat, success, allOk, delay, backoff>>

\* the wallet iteration ends; the frame of getSessionProxy is gone
WalletIterationEnds ==
  /\ lease.st = "leased"
  /\ lease' = [lease EXCEPT !.st = "idle", !.shuffled = <<>>, !.i = 0, !.failed = {},
                            !.passed = FALSE, !.proxy = NoProxy, !.agent = "null",
                            !.rounds = @ + 1]
  /\ UNCHANGED <<cfg, proxy, privateKeys, i, successCount, failCount, pc, rt, auth, credit,
                 chat, success, allOk, delay, backoff>>

NextLease == initialize \/ getSessionProxy \/ isProxyWorking \/ WalletIterationEnds

LeaseSpec == InitLease /\ [][NextLease]_vars

\* One wallet at most, every pending request answered and every sleep ended
\* in the end: the run of processWalletSession under the assumption that the
\* network and the timers always come back (weak fairness of every step).
InitOneWallet == Init /\ Len(privateKeys) <= 1

FairSpec == InitOneWallet /\ [][Next]_vars /\ WF_vars(Next)

----------------------------------------------------------------------------
(* Claims *)

\* a send failed outright: sendChatMessage's withRetry threw (retries exhausted
\* or a non-transient error), so sendChatMessage returns []
OpeningSendFailed == pc = "chatInitial" /\ rt.st = "threw"
FollowupSendFailed == pc = "chatFollowup" /\ rt.st = "threw"

\* C1: once a chat response whose first message reads "Insufficient balance."
\* was received, the session sends no further message and does not end as
\* completed.
C1_AbortOnInsufficientBalance ==
  [][(chat.insufficient /\ chat.result = "none")
       => (chat'.sends = chat.sends /\ chat'.result # "true")]_vars

\* C2: a login request that fails with HTTP 404 is not retried by withRetry
\* (withRetry has thrown it), and once login failed with 404 authenticate has
\* returned failure: no further attempt (nonce request) is started.
C2_Login404EndsAuthentication ==
  /\ (pc = "login" /\ rt.lastErr = HttpError(404))
       => (rt.st = "threw" /\ rt.thrown = HttpError(404) /\ rt.thrownSeq = rt.calls)
  /\ auth.login404
       => (pc = "authReturn" /\ auth.result = "null" /\ ~auth.authSuccess)

\* the first attempt's login got a 404 and authenticate returned after that one attempt
C2_Witness ==
  pc = "authReturn" /\ auth.login404 /\ auth.attemptCount = 1 /\ auth.result = "null"

\* C3: checkCredit never returns null, so checkWalletCredit always yields a
\* snapshot (the wallet never fails at the credit-fetch step).
C3_CreditAlwaysUsable == credit.ret # "null" /\ credit.snap # "null"

\* C4: an HTTP error whose status is neither 429 nor 503 is rethrown at once:
\* withRetry has thrown that very error, no sleep or further invocation
\* follows, and when it was the first invocation the operation ran exactly
\* once with no sleep.
C4_HardErrorNotRetried ==
  (rt.lastErr.resp /\ ~IsTransient(rt.lastErr))
    => /\ rt.st = "threw"
       /\ rt.thrown = rt.lastErr
       /\ rt.thrownSeq = rt.calls
       /\ rt.lastSeq = 1 => (rt.calls = 1 /\ rt.sleeps = 0 /\ rt.retries = 0)

\* the first invocation failed with HTTP 500 and withRetry threw
C4_Witness ==
  rt.st = "threw" /\ rt.thrown = HttpError(500) /\ rt.calls = 1 /\ rt.sleeps = 0

\* C5: when every failure was a 429 or 503, a success after k failures is
\* returned after exactly k sleeps and k + 1 invocations (k <= maxRetries),
\* and no such error surfaces before maxRetries + 1 invocations have failed.
C5_TransientFailuresAbsorbed ==
  /\ (rt.st = "returned" /\ rt.onlyTransient)
       => (rt.sleeps = rt.calls - 1 /\ rt.retries = rt.sleeps /\ rt.calls - 1 <= rt.maxRetries)
  /\ (rt.st = "threw" /\ rt.onlyTransient) => rt.calls = rt.maxRetries + 1
  /\ (rt.st = "sleeping" /\ rt.onlyTransient) => rt.calls <= rt.maxRetries

\* checkCredit's withRetry: 5 transient failures, then the 6th invocation succeeds
C5_Witness ==
  /\ rt.st = "returned" /\ rt.onlyTransient
  /\ rt.maxRetries = CreditRetries /\ rt.calls = CreditRetries + 1 /\ rt.sleeps = CreditRetries

\* C6: withRetry invokes its operation at most maxRetries + 1 times, and when
\* it throws an error that is not a non-retryable HTTP status (every
\* invocation failed retryably), that error is the one of the last,
\* (maxRetries + 1)-th invocation.
C6_RetriesCapped ==
  /\ rt.calls <= rt.maxRetries + 1
  /\ (rt.st = "threw" /\ (IsTransient(rt.thrown) \/ ~rt.thrown.resp))
       => (rt.calls = rt.maxRetries + 1 /\ rt.thrownSeq = rt.calls /\ rt.thrown = rt.lastErr)

\* four invocations of a 3-retry call all failed, the last with 503
C6_Witness ==
  /\ rt.st = "threw" /\ rt.maxRetries = SiweRetries /\ rt.calls = SiweRetries + 1
  /\ rt.thrown = HttpError(503) /\ rt.onlyTransient

\* C7: authenticate starts at most maxAttempts (2) attempts; it returns a
\* credential exactly when the latest attempt completed all four steps; once
\* an attempt has completed them authenticate returns (no further attempt);
\* after two failed attempts it returns null.
C7_AttemptLoop ==
  /\ auth.attemptCount <= maxAttempts
  /\ pc = "authReturn" => (auth.result = "cred" <=> auth.steps = 4)
  /\ auth.steps = 4 => (pc = "authReturn" /\ auth.authSuccess)
  /\ (pc = "authReturn" /\ auth.attemptCount = maxAttempts /\ auth.steps # 4)
       => auth.result = "null"

\* the first attempt failed and the second one completed the four steps
C7_Witness ==
  pc = "authReturn" /\ auth.result = "cred" /\ auth.attemptCount = maxAttempts

\* C8 as stated: no send that fails outright, the opening one included, ends the session.
C8_FailedSendNeverEndsSession ==
  [][(OpeningSendFailed \/ FollowupSendFailed) => pc' # "record"]_vars

\* C8 amended: a follow-up send that fails outright does not end the session
\* (the loop goes on with the next planned message); a failed opening send
\* ends the session as failed after that single send.
C8_FailedFollowupContinues ==
  [][/\ FollowupSendFailed
          => (pc' = "chatLoop" /\ chat'.i = chat.i + 1 /\ chat'.result = "none"
              /\ chat'.promptCount = chat.promptCount)
     /\ OpeningSendFailed
          => (pc' = "record" /\ ~success' /\ chat'.result = "false" /\ chat'.sends = 1)]_vars

\* a follow-up send has failed outright while planned messages remain
C8_Witness ==
  FollowupSendFailed /\ chat.i + 1 < chat.promptCount

\* C9: a session that completes has made exactly promptCount + 1 = N
\* sendChatMessage calls, with messageCount.min <= N <= messageCount.max.
C9_PlannedCountSent ==
  chat.result = "true"
    => (chat.sends = chat.promptCount + 1 /\ cfg.min <= chat.sends /\ chat.sends <= cfg.max)

\* a completed session with the largest count of a proper range
C9_Witness ==
  chat.result = "true" /\ cfg.min < cfg.max /\ chat.sends = cfg.max /\ chat.sends = MaxMsgs

\* C10: with a snapshot, the chat session is started exactly when
\* totalAvailableCredits >= minCreditBalance; a skipped wallet issues no chat
\* request, is reported as a failure and is counted in failCount.
C10_CreditGate ==
  /\ credit.snap = "snap"
       => (chat.started <=> credit.totalAvailableCredits >= cfg.minCreditBalance)
  /\ (credit.snap = "snap" /\ ~chat.started)
       => /\ ~chat.requested /\ chat.sends = 0
          /\ pc \in {"record", "mainLoop", "done"}
          /\ ~success
          /\ pc \in {"mainLoop", "done"} => (failCount >= 1 /\ successCount + failCount = i)

\* a wallet whose total equals a positive threshold proceeds to the chat session
C10_Witness ==
  /\ credit.snap = "snap" /\ chat.started
  /\ cfg.minCreditBalance > 0 /\ credit.totalAvailableCredits = cfg.minCreditBalance

\* C11: when the credit endpoint answers with a payload that carries exactly
\* one of credits / free_credits, the snapshot has the missing component 0,
\* the present component equal to the payload's amount, and
\* totalAvailableCredits equal to that amount (paid + free).
C11_MissingFieldDefaultsToZero ==
  [][(pc = "checkCredit" /\ rt.st = "returned" /\ rt.data.kind = "obj"
        /\ ((rt.data.credits.k = "absent") # (rt.data.free.k = "absent")))
       => LET amount(field) == IF field.k = "num" THEN field.v ELSE 0
              paid == amount(rt.data.credits)
              free == amount(rt.data.free)
          IN /\ credit'.snap = "snap"
             /\ credit'.creditBalance = paid
             /\ credit'.freeCredits = free
             /\ credit'.totalAvailableCredits = paid + free
             /\ rt.data.credits.k = "absent" => credit'.creditBalance = 0
             /\ rt.data.free.k = "absent" => credit'.freeCredits = 0]_vars

\* a payload with free_credits only, carrying a positive amount, became the snapshot
C11_Witness ==
  /\ credit.snap = "snap" /\ credit.credits.k = "absent" /\ credit.free = Num(CreditUnit)
  /\ credit.creditBalance = 0 /\ credit.totalAvailableCredits = CreditUnit

C13_ResetExactlyWhenAllUsed ==
  [][/\ (pc = "chatPick" /\ chat.attempts + 1 > NumPrompts)        \* this draw executes the reset
          => chat.used = 0 .. (NumPrompts - 1)
     /\ (pc = "chatPick" /\ chat.used = 0 .. (NumPrompts - 1) /\ pc' = "typingDelay")
          => chat.attempts + 1 > NumPrompts]_vars

\* C14: every prompt index startChatSession chooses, for the opener and for
\* each follow-up, lies in 0 .. chatPrompts.length - 1 (also when the planned
\* count exceeds the list), so every message sent is an element of the list.
C14_PromptIndexInRange ==
  /\ chat.initialPromptIndex \in 0 .. (NumPrompts - 1)
  /\ chat.used \subseteq 0 .. (NumPrompts - 1)
  /\ chat.sends > 0 => chat.promptIndex \in 0 .. (NumPrompts - 1)

\* more messages than prompts were sent, the latest one being the last prompt of the list
C14_Witness ==
  /\ pc = "chatFollowup" /\ chat.sends > NumPrompts
  /\ chat.promptIndex = NumPrompts - 1

\* C15: main takes the keys one by one in list order, each exactly once,
\* whatever the earlier outcomes: the index only ever advances by one, and
\* only when an outcome is counted; a failed wallet is counted and the loop
\* goes on; the loop ends only after the last key, with
\* successCount + failCount equal to the number of keys.
C15_EveryKeyProcessedOnce ==
  [][/\ i' \in {i, i + 1}
     /\ i' = i + 1 => /\ pc = "record" /\ pc' = "mainLoop"
                      /\ successCount' + failCount' = i'
     /\ (pc = "mainLoop" /\ pc' # "done") => i < Len(privateKeys)
     /\ (pc = "record" /\ ~success) => (pc' = "mainLoop" /\ failCount' = failCount + 1)
     /\ pc' = "done" => /\ pc = "mainLoop"
                        /\ i' = Len(privateKeys)
                        /\ successCount' + failCount' = Len(privateKeys)]_vars

\* a full-length list whose first wallet failed and whose last wallet succeeded was finished
C15_Witness ==
  /\ pc = "done" /\ Len(privateKeys) = MaxKeys /\ privateKeys[1] = "invalid"
  /\ success /\ failCount >= 1 /\ successCount >= 1
  /\ successCount + failCount = MaxKeys

\* C16: wallets are processed strictly one at a time. While a request of the
\* current wallet is pending (a proxy test, a withRetry call of the
\* authentication, credit, agent or chat sites, the history fetch), the
\* outcomes counted are exactly those of the earlier wallets; when an outcome
\* is recorded or the next wallet is taken, no request is pending; and a proxy
\* test and a platform request are never pending together.
C16_OneWalletAtATime ==
  /\ pc \in {"record", "mainLoop", "done"} => (rt = NoRetry /\ proxy = ProxyIdle)
  /\ (rt.st # "idle" \/ proxy.st # "idle" \/ pc = "chatHistory")
       => (successCount + failCount = i /\ i < Len(privateKeys))
  /\ ~(rt.st # "idle" /\ proxy.st # "idle")

\* the second proxy test of the second wallet is pending, the first wallet's outcome counted
C16_Witness ==
  /\ i = 1 /\ successCount + failCount = 1
  /\ pc = "getWorkingProxy" /\ proxy.st = "testing" /\ proxy.k = 1

\* C17: per wallet the stages run in the order identity, authenticate, credit
\* check, chat. An authentication request is issued only for a key a wallet
\* was derived from and before any credit or chat activity; a credit request
\* only after authenticate returned a credential; an agent-lookup or chat
\* request only after authenticate returned a credential and the session was
\* started; and the session is started only by the gate, on a snapshot whose
\* total is at least minCreditBalance.
C17_StageOrder ==
  [][/\ rt'.site \in {"nonce", "verify", "login"}
          => /\ initWallet(privateKeys[i + 1]) = "wallet"
             /\ auth'.result = "none" /\ credit' = CreditIdle /\ ~chat'.started
     /\ rt'.site = "credit"
          => (auth'.result = "cred" /\ ~chat'.started /\ ~chat'.requested)
     /\ (rt'.site \in {"agent", "chat"} \/ chat'.requested)
          => (auth'.result = "cred" /\ chat'.started)
     /\ (chat'.started /\ ~chat.started)
          => /\ pc = "checkCredit" /\ rt.site = "credit" /\ auth.result = "cred"
             /\ credit'.snap = "snap"
             /\ credit'.totalAvailableCredits >= cfg.minCreditBalance]_vars

\* the opening chat request is pending, after authentication and the gate
C17_Witness ==
  /\ pc = "chatInitial" /\ rt.site = "chat" /\ rt.st = "running"
  /\ auth.result = "cred" /\ chat.started /\ chat.requested
  /\ cfg.minCreditBalance > 0

\* C18: end-to-end scenario. One valid key, every request and the signature
\* succeeding, minCreditBalance 0 and messageCount {min: 2, max: 2} (the
\* model's prompt list has NumPrompts items, 2 by default): never more than
\* 2 chat messages are sent; when the session returns exactly 2 were sent, it
\* returned true, and main ends with successCount = 1 and failCount = 0.
C18_EndToEndScenario ==
  (/\ Len(privateKeys) = 1 /\ privateKeys[1] = "valid"
   /\ cfg.minCreditBalance = 0 /\ cfg.min = 2 /\ cfg.max = 2
   /\ allOk)
    => /\ chat.sends <= 2
       /\ (pc \in {"record", "done"} \/ (pc = "mainLoop" /\ i = 1))
            => (chat.sends = 2 /\ chat.result = "true" /\ success)
       /\ pc = "done" => (successCount = 1 /\ failCount = 0)

\* the scenario ran to the summary
C18_Witness ==
  /\ Len(privateKeys) = 1 /\ privateKeys[1] = "valid"
  /\ cfg.minCreditBalance = 0 /\ cfg.min = 2 /\ cfg.max = 2 /\ cfg.proxies = 0
  /\ allOk /\ pc = "done" /\ chat.sends = 2 /\ successCount = 1 /\ failCount = 0

\* C19: the bot keeps interacting with the agent until the wallet's credit
\* falls below the threshold. In terms of what the program observes of the
\* credit (the snapshot that passed the gate, and chat responses reading
\* "Insufficient balance."): a started session ends as completed only after
\* the credit was reported insufficient, and once it was reported
\* insufficient no further message is sent.
C19_ContinueUntilCreditExhausted ==
  [][/\ (chat.started /\ chat.result = "none" /\ chat'.result = "true")
          => chat'.insufficient
     /\ (chat.started /\ chat.insufficient /\ chat.result = "none")
          => chat'.sends = chat.sends]_vars

\* C20: only an HTTP 404 at login short-circuits the attempt loop. When the
\* login request of an attempt that is not the last fails for another reason
\* (HTTP 500, 429 / 503 with the retries exhausted, a network error),
\* authenticate does not return: the loop goes on to the next attempt.
C20_Only404ShortCircuits ==
  [][(pc = "login" /\ rt.st = "threw" /\ rt.thrown # HttpError(404)
        /\ auth.attemptCount < maxAttempts)
       => pc' \in {"authLoop", "authDelay"}]_vars

\* the class of the failure that ended the latest authentication attempt, from
\* what the attempt did: a 404 at login, or the step it did not complete
AuthFailureClass ==
  IF auth.login404 THEN "UnregisteredWallet"
  ELSE CASE auth.steps = 0 -> "NonceFailure"
         [] auth.steps = 1 -> "SignFailure"
         [] auth.steps = 2 -> "VerifyFailure"
         [] OTHER          -> "LoginFailure"

\* C21 as stated: when authenticate fails, the value it returns identifies
\* the failure class (nonce, sign, verify, login failure or unregistered wallet).
C21_TypedFailure ==
  (pc = "authReturn" /\ auth.result # "cred") => auth.result = AuthFailureClass

\* C21 amended: authenticate returns either the credential or null; every
\* failure class, the unregistered wallet included, yields the same null.
C21_FailureIsAlwaysNull ==
  pc = "authReturn"
    => /\ auth.result \in {"cred", "null"}
       /\ auth.result = "cred" <=> auth.authSuccess
       /\ ~auth.authSuccess => auth.result = "null"

\* authenticate returned null after a second attempt that failed at verification
C21_Witness ==
  /\ pc = "authReturn" /\ auth.result = "null" /\ auth.attemptCount = maxAttempts
  /\ ~auth.login404 /\ AuthFailureClass = "VerifyFailure"

\* C22: every request issued during wallet processing through withRetry
\* (nonce, verify, login, credit, agent lookup, chat send) carries the fixed
\* 30-second timeout.
C22_EveryRequestHasTimeout ==
  rt.st = "running" => rt.timeout = HttpTimeout

\* C23: provided every request is answered and every sleep ends, processing
\* a wallet terminates. withRetry invokes its operation at most
\* maxRetries + 1 times, authenticate starts at most maxAttempts attempts, the
\* do-while that draws a prompt index stays in the loop at most
\* chatPrompts.length times (so it runs at most length + 1 iterations), the
\* message loop never passes the planned count, and a wallet whose processing
\* has begun eventually has its outcome returned to main.
C23_WalletProcessingTerminates ==
  /\ [](/\ rt.calls <= rt.maxRetries + 1
        /\ rt.retries <= rt.maxRetries
        /\ auth.attemptCount <= maxAttempts
        /\ chat.attempts <= NumPrompts
        /\ chat.i <= chat.promptCount
        /\ chat.promptCount < cfg.max
        /\ proxy.k < ProxyTests(NumProxies))
  /\ (pc \notin {"mainLoop", "record", "done"}) ~> (pc = "record")
  /\ <>(pc = "done")

\* the longest session of the configuration ran to its end
C23_Witness ==
  /\ pc = "record" /\ chat.result = "true" /\ chat.sends = MaxMsgs
  /\ Len(privateKeys) = 1

\* C24: within an authentication attempt the requests go nonce, verify,
\* login. A nonce request opens an attempt; the verify request is issued only
\* when the nonce request returned a response and the message was signed; the
\* login request only when verification returned a provider token; a
\* credential is produced only when login returned an access token; and a
\* step that failed is followed by no later-step request of that attempt.
C24_AttemptStepOrder ==
  [][/\ (rt'.site = "nonce" /\ rt.site # "nonce")
          => (pc = "authLoop" /\ auth'.attemptCount = auth.attemptCount + 1)
     /\ (rt'.site = "verify" /\ rt.site # "verify")
          => /\ pc = "initSIWE" /\ rt.site = "nonce"
             /\ rt.st = "returned" /\ rt.data.kind # "null"
             /\ auth'.steps = 2
     /\ (rt'.site = "login" /\ rt.site # "login")
          => /\ pc = "authSIWE" /\ rt.site = "verify"
             /\ rt.st = "returned" /\ rt.data.kind = "token"
     /\ (auth'.result = "cred" /\ auth.result # "cred")
          => /\ pc = "login" /\ rt.site = "login"
             /\ rt.st = "returned" /\ rt.data.kind = "access"
     /\ (pc = "initSIWE" /\ Finished(rt) /\ (rt.st = "threw" \/ rt.data.kind = "null"))
          => (rt' = NoRetry /\ pc' = "authLoop")
     /\ (pc = "authSIWE" /\ Finished(rt) /\ (rt.st = "threw" \/ rt.data.kind # "token"))
          => (rt' = NoRetry /\ pc' = "authLoop")]_vars

\* the first attempt went through nonce, signature, verification and login
C24_Witness ==
  /\ pc = "authReturn" /\ auth.result = "cred" /\ auth.steps = 4
  /\ auth.attemptCount = 1

\* C25: whenever authenticate makes a second attempt, the loop slept (the
\* 5 to 10 second delay) between the end of the first attempt and the nonce
\* request that opens the second.
C25_DelayBeforeSecondAttempt ==
  [][(pc = "authLoop" /\ auth.attemptCount >= 1 /\ rt'.site = "nonce")
       => auth.delayed]_vars

\* C26 (as stated): withRetry sleeps and retries only after a failure that is
\* an HTTP 429 or 503 response; a failure that carries no HTTP response is
\* propagated on the first attempt.
C26_RetryOnlyOn429Or503 ==
  [][(rt.st = "running" /\ rt'.st = "sleeping") => IsTransient(rt'.lastErr)]_vars

\* C26 (amended): withRetry propagates at once exactly the failures that carry
\* an HTTP response with a status other than 429 and 503. A failure that
\* carries no HTTP response is retried after a sleep, like a 429 or 503, as
\* long as fewer than maxRetries retries were made.
C26_NoResponseIsRetried ==
  [][(rt.st = "running" /\ rt'.site = rt.site /\ rt'.calls = rt.calls + 1
        /\ rt'.lastErr # NoError)
       => /\ (rt'.st = "sleeping")
               => (IsTransient(rt'.lastErr) \/ ~rt'.lastErr.resp)
          /\ (~rt'.lastErr.resp /\ rt.retries < rt.maxRetries)
               => (rt'.st = "sleeping" /\ rt'.thrown = NoError)
          /\ (rt'.lastErr.resp /\ ~IsTransient(rt'.lastErr))
               => (rt'.st = "threw" /\ rt'.thrown = rt'.lastErr
                   /\ rt'.sleeps = rt.sleeps)]_vars

\* a call that failed without an HTTP response was retried and then succeeded
C26_Witness ==
  /\ rt.st = "returned" /\ rt.sleeps >= 1 /\ ~rt.onlyTransient
  /\ rt.calls = rt.sleeps + 1

\* C27: the delay withRetry sleeps before retry number k is
\* min(maxDelay, baseDelay * 2^k * j) with a jitter j between 0.8 and 1.2:
\* it is at most maxDelay, it is maxDelay only when the jittered value can
\* reach it and otherwise lies within 20% of baseDelay * 2^k, and within one
\* call no delay is shorter than the one before.
C27_BackoffDelays ==
  backoff.retries >= 1 =>
    LET p == RetryParams(backoff.site)
        k == backoff.retries - 1
        nominal == p.baseDelay * Pow2(k)
    IN /\ backoff.delay <= p.maxDelay
       /\ \/ backoff.delay = p.maxDelay /\ 12 * nominal >= 10 * p.maxDelay
          \/ 8 * nominal <= 10 * backoff.delay /\ 10 * backoff.delay <= 12 * nominal
       /\ backoff.prev <= backoff.delay

\* checkCredit's call after its fifth failure: the delay is capped at
\* maxDelay, above the delay before it
C27_Witness ==
  /\ backoff.site = "credit" /\ backoff.retries = CreditRetries
  /\ backoff.delay = RetryParams("credit").maxDelay
  /\ 0 < backoff.prev /\ backoff.prev < backoff.delay

\* C28: a follow-up message never uses a prompt index that is already in the
\* used set while at least one index of the prompt list is still unused.
C28_NoRepeatWhileUnusedRemain ==
  [][(pc = "chatPick" /\ pc' = "typingDelay"
        /\ chat.used # 0 .. (NumPrompts - 1))
       => chat'.promptIndex \notin chat.used]_vars

\* C29: with at least two prompts, no follow-up message reuses the opening
\* prompt's index, the follow-up chosen on the iteration that resets the used
\* set included.
C29_OpenerNeverRepeated ==
  [][(pc = "chatPick" /\ pc' = "typingDelay" /\ NumPrompts >= 2)
       => chat'.promptIndex # chat.initialPromptIndex]_vars

\* the amount a payload field stands for when an absent (or null) field counts as zero
C30_Amount(field) == IF field.k = "num" THEN field.v ELSE 0

\* C30 (as stated): every credit snapshot has totalAvailableCredits =
\* creditBalance + freeCredits, each component being the payload's amount
\* with an absent component taken as zero; a successful response with neither
\* balance field yields total 0.
C30_TotalIsSumAbsentAsZero ==
  [][(pc = "checkCredit" /\ credit'.snap = "snap")
       => /\ credit'.totalAvailableCredits = credit'.creditBalance + credit'.freeCredits
          /\ rt.st = "returned"
               => /\ credit'.creditBalance = C30_Amount(rt.data.credits)
                  /\ credit'.freeCredits = C30_Amount(rt.data.free)]_vars

\* C30 (amended): every credit snapshot has totalAvailableCredits =
\* creditBalance + freeCredits. For a successful response carrying at least
\* one balance field each component is the payload's amount, an absent one
\* zero; for a successful response carrying neither field the snapshot is the
\* default one: paid 0, free 480, total 480.
C30_TotalIsSumWithDefault ==
  [][(pc = "checkCredit" /\ credit'.snap = "snap")
       => /\ credit'.totalAvailableCredits = credit'.creditBalance + credit'.freeCredits
          /\ (rt.st = "returned"
                /\ ~(rt.data.credits.k = "absent" /\ rt.data.free.k = "absent"))
               => /\ credit'.creditBalance = C30_Amount(rt.data.credits)
                  /\ credit'.freeCredits = C30_Amount(rt.data.free)
          /\ (rt.st = "returned"
                /\ rt.data.credits.k = "absent" /\ rt.data.free.k = "absent")
               => /\ credit'.creditBalance = 0
                  /\ credit'.freeCredits = DefaultFreeCredits
                  /\ credit'.totalAvailableCredits = DefaultFreeCredits]_vars

\* every request of the wallet succeeded, the credit response carried no
\* balance field, and the snapshot of total 480 passed a positive threshold
C30_Witness ==
  /\ allOk /\ pc = "getAgent" /\ rt.calls = 0
  /\ credit.snap = "snap" /\ credit.creditBalance = 0
  /\ credit.totalAvailableCredits = DefaultFreeCredits
  /\ cfg.minCreditBalance = CreditUnit

C32_OneUserAgentPerSession ==
  /\ [](/\ (rt.site \in {"nonce", "verify", "login"})
             => (rt.userAgent = auth.currentUserAgent /\ rt.userAgent # 0)
        /\ (rt.site \in {"credit", "agent", "chat"})
             => (rt.userAgent = auth.authData.userAgent /\ rt.userAgent # 0)
        /\ (chat.history # <<>>) => (chat.history[1] = auth.authData.userAgent))
  /\ [][/\ (auth'.currentUserAgent # auth.currentUserAgent)
             => (pc = "authLoop" \/ auth'.currentUserAgent = 0)
        /\ (auth'.authData # auth.authData)
             => \/ /\ pc = "login" /\ auth'.result = "cred"
                   /\ auth'.authData.userAgent = rt.userAgent
                   /\ auth'.authData.userAgent = auth.currentUserAgent
                \/ /\ pc = "mainLoop" /\ auth'.authData.userAgent = 0]_vars

\* a follow-up is on its way with the second user agent of the list, the one
\* the credential holds
C32_Witness ==
  /\ pc = "chatFollowup" /\ rt.st = "running" /\ rt.site = "chat"
  /\ rt.userAgent = NumUserAgents /\ auth.authData.userAgent = NumUserAgents
  /\ chat.history # <<>>

\* C33: in main, after each wallet's outcome is recorded and before the next
\* wallet starts, a sleep drawn from the configured sessionDelay range
\* occurs, for every pair of consecutive wallets and whatever the outcome of
\* the earlier one; no such sleep occurs after the last wallet.
C33_SleepBetweenWallets ==
  [][/\ (pc = "record")
          => /\ pc' = "mainLoop"
             /\ successCount' + failCount' = successCount + failCount + 1
             /\ IF i + 1 < Len(privateKeys)
                  THEN /\ cfg.sessionDelay.min <= delay'
                       /\ delay' <= cfg.sessionDelay.max
                  ELSE delay' = 0
     /\ (pc = "mainLoop" /\ 1 <= i /\ i < Len(privateKeys))   \* the next wallet starts
          => (cfg.sessionDelay.min <= delay /\ delay <= cfg.sessionDelay.max)
     /\ (pc' = "done") => delay = 0]_vars

\* the first wallet failed, the longest delay of the range was slept, and the
\* second wallet is about to start
C33_Witness ==
  /\ pc = "mainLoop" /\ i = 1 /\ failCount = 1 /\ Len(privateKeys) = MaxKeys
  /\ delay = cfg.sessionDelay.max /\ cfg.sessionDelay.min < cfg.sessionDelay.max

\* C34: every follow-up send is preceded by a typing-delay sleep drawn from
\* the configured typingDelay range, and every follow-up response that is
\* received is followed by a reading-delay sleep of 2000 to 8000 ms before the
\* next message is selected.
C34_TypingAndReadingDelays ==
  [][/\ (pc' = "chatFollowup" /\ pc # "chatFollowup")      \* the follow-up is sent
          => /\ pc = "typingDelay"
             /\ cfg.typingDelay.min <= delay /\ delay <= cfg.typingDelay.max
             /\ rt'.site = "chat" /\ rt'.calls = 0
     /\ (pc = "chatPick" /\ pc' # "chatPick")
          => /\ pc' = "typingDelay"
             /\ cfg.typingDelay.min <= delay' /\ delay' <= cfg.typingDelay.max
     /\ (pc = "chatFollowup" /\ rt.st = "returned"
           /\ rt.data.kind \in {"normal", "insufficient"})
          => /\ pc' = "readingDelay"
             /\ ReadingDelayMin <= delay' /\ delay' <= ReadingDelayMax
             /\ chat'.i = chat.i
     /\ (pc = "readingDelay") => (pc' = "chatLoop" /\ chat'.i = chat.i + 1)
     /\ (pc' = "chatPick" /\ pc # "chatPick") => pc = "chatLoop"]_vars

\* the response to the second follow-up is being read, for longer than the minimum
C34_Witness ==
  /\ pc = "readingDelay" /\ chat.i = 1 /\ chat.sends = 3
  /\ delay > ReadingDelayMin /\ delay <= ReadingDelayMax

\* C35: all chat requests of one session (every message send and the history
\* fetch) carry the same chat id, made of the wallet address and the Unix
\* timestamp (seconds) taken once at session start, and the same agent id,
\* resolved at session start.
C35_OneChatIdAndAgentPerSession ==
  /\ [](/\ (rt.site = "chat")
             => (rt.chatId = chat.chatId /\ rt.agentId = chat.agentId)
        /\ (chat.history # <<>>)
             => (chat.history[2] = chat.agentId /\ chat.history[3] = chat.chatId)
        /\ (chat.chatId # <<>> /\ chat.result = "none")     \* the session is running
             => /\ chat.chatId[1] = i + 1
                /\ \E now \in Now : /\ chat.chatId[2] * 1000 <= now
                                    /\ now < (chat.chatId[2] + 1) * 1000
                /\ chat.agentId \in {ListedAgentId, FallbackAgentId})
  /\ [][(chat'.chatId # chat.chatId \/ chat'.agentId # chat.agentId)
          => \/ pc = "getAgent" /\ chat.chatId = <<>> /\ chat.agentId = 0
             \/ chat'.chatId = <<>> /\ chat'.agentId = 0]_vars

\* the second wallet's session: a follow-up carries the chat id of the
\* history fetch and the listed agent's id
C35_Witness ==
  /\ pc = "chatFollowup" /\ rt.st = "running" /\ i = 1
  /\ rt.chatId[1] = 2 /\ rt.chatId = chat.history[3]
  /\ rt.agentId = ListedAgentId /\ chat.sends = 3

\* C36: leasing a proxy (getSessionProxy / getWorkingProxy) leaves the shared
\* pool as initialize loaded it: the same descriptors, with the same fields, in
\* the same order, during and after every wallet iteration.
C36_PoolUnchangedByLease ==
  lease.st # "startup" => lease.proxies = lease.loaded

\* a wallet was leased a proxy from a pool that getWorkingProxy shuffled into
\* another order, a second wallet having been served before it
C36_Witness ==
  /\ lease.st = "leased"
  /\ lease.rounds >= 1
  /\ Len(lease.loaded) >= 2
  /\ lease.shuffled # lease.loaded
  /\ lease.proxies = lease.loaded

\* C37: for a key no wallet can be derived from, processWallet fails the wallet
\* without any identity-provider or platform request: during that wallet's
\* iteration only proxy tests are ever pending, no authentication, credit or
\* chat state is built, and the session returns false; the wallet is counted
\* as failed, and main goes on to the following wallet.
C37_InvalidKeyFailsWithoutRequests ==
  /\ []((i < Len(privateKeys) /\ privateKeys[i + 1] = "invalid" /\ pc # "mainLoop")
          => /\ pc \in {"getWorkingProxy", "record"}
             /\ rt = NoRetry
             /\ auth = AuthIdle /\ credit = CreditIdle /\ chat = ChatIdle
             /\ pc = "record" => ~success)
  /\ [][(pc = "record" /\ privateKeys[i + 1] = "invalid")
          => /\ failCount' = failCount + 1
             /\ successCount' = successCount
             /\ i' = i + 1
             /\ pc' = "mainLoop"]_vars
  /\ [][(pc = "mainLoop" /\ i >= 1 /\ privateKeys[i] = "invalid" /\ i < Len(privateKeys))
          => (i' = i /\ pc' \in {"getWorkingProxy", "authLoop", "record"})]_vars

\* the first key was invalid and counted as failed, and the second wallet has
\* reached its chat session
C37_Witness ==
  /\ i = 1 /\ privateKeys[1] = "invalid"
  /\ failCount = 1 /\ successCount = 0
  /\ pc = "chatLoop"

\* C38: when the nonce endpoint answers without a nonce (the request failed,
\* the body is empty, or the body has no nonce field), the attempt fails at
\* that step: no message is signed (the attempt stays at one step at most) and
\* no verification request is submitted.
C38_NoNonceFailsAttempt ==
  [][(/\ pc = "initSIWE"
      /\ Finished(rt)
      /\ (rt.st = "threw" \/ rt.data.kind \in {"null", "noNonce"}))
       => /\ rt'.site # "verify"
          /\ pc' = "authLoop"
          /\ auth'.steps <= 1]_vars

C40_Tested == Cardinality(lease.failed) + (IF lease.passed THEN 1 ELSE 0)

====
